---- MODULE Spec2Model ----
(***************************************************************************)
(* A model of flyboy.py: a turn-based shooting game on a character grid.   *)
(* The player (an Object), the list `mobs` (Mobs and Bullets), the global  *)
(* `map` and the position of the main loop are the state.  One action per  *)
(* step of the main loop: the win check, the input handler, one iteration  *)
(* of the for loop of handle_mobs, and the end of that loop.               *)
(*                                                                         *)
(* Random draws (random.random, random.randint) and the key read from the  *)
(* keyboard are inputs chosen with \E.  An uncaught IndexError ends the    *)
(* program: pc = "crashed".                                                *)
(***************************************************************************)
EXTENDS Integers, Sequences, FiniteSets, TLC

\* ------------------------------------------------------------------ bounds
\* The grid of the program is 80 x 20 with 13 mobs; the model keeps the
\* code and shrinks the sizes.
WIDTH == 3
HEIGHT == 2
NumMobs == 1
\* At most this many Bullets are in `mobs` at once (a fire needs room).
MaxBullets == 2

\* ------------------------------------------------------------------ glyphs
Blank == " "
PlayerChar == "*"
MobChar == "+"
VBulletChar == "\""
HBulletChar == "="

\* The eight recognised keys and one key standing for every other input.
Keys == {"w", "a", "s", "d", "W", "A", "S", "D", "x"}

\* player = Object(10, 10, '*'): (10, 10) when the grid has such a cell,
\* else the cell in the middle of the shrunk grid.
PlayerStartX == IF 10 < WIDTH THEN 10 ELSE WIDTH \div 2
PlayerStartY == IF 10 < HEIGHT THEN 10 ELSE HEIGHT \div 2

VARIABLES
    map,     \* map[y][x]: the glyph drawn at column x of row y
    player,  \* the player Object: [x, y, character]
    mobs,    \* the list of Mobs and Bullets, in list order
    pc,      \* where the main loop is
    idx,     \* the index the for loop of handle_mobs is at (1-based)
    ev       \* the primitive the last step performed (observation only)

vars == <<map, player, mobs, pc, idx, ev>>

\* ------------------------------------------------------------------ Object
\* A Mob or a Bullet of the list.  dx, dy are 0 for a Mob (it has none).
\* ran / atStart observe the pass of handle_mobs: how many times move() ran
\* for the entity in the current pass, and whether it was in the list when
\* the pass began.  life observes a Bullet: "new" until its first move(),
\* "collided" once a move() of it has raised a collision, else "flying".
Mob(x, y) ==
    [kind |-> "Mob", x |-> x, y |-> y, character |-> MobChar,
     dx |-> 0, dy |-> 0, ran |-> 0, atStart |-> FALSE, life |-> "new"]

Bullet(x, y, character, dx, dy) ==
    [kind |-> "Bullet", x |-> x, y |-> y, character |-> character,
     dx |-> dx, dy |-> dy, ran |-> 0, atStart |-> FALSE, life |-> "new"]

\* map[y][x] = character succeeds for -HEIGHT <= y < HEIGHT and
\* -WIDTH <= x < WIDTH (a negative index counts from the end) and raises
\* IndexError otherwise.
CanRender(x, y) == /\ -HEIGHT <= y /\ y < HEIGHT
                   /\ -WIDTH <= x /\ x < WIDTH

Row(y) == IF y < 0 THEN y + HEIGHT ELSE y
Col(x) == IF x < 0 THEN x + WIDTH ELSE x

Render(m, x, y, character) ==
    [m EXCEPT ![Row(y)][Col(x)] = character]

\* detect_collision that keeps scanning and names the last entity at (x, y).
DetectCollisionLast(ms, x, y) ==
    LET hits == {i \in 1..Len(ms) : ms[i].x = x /\ ms[i].y = y}
    IN  IF hits = {} THEN 0
        ELSE CHOOSE i \in hits : \A j \in hits : i >= j

\* detect_collision that finds nothing.
DetectCollisionNever(ms, x, y) == 0

\* detect_collision: the index of the first entity of the list at (x, y),
\* 0 when there is none (no exception is raised).
DetectCollision(ms, x, y) ==
    LET hits == {i \in 1..Len(ms) : ms[i].x = x /\ ms[i].y = y}
    IN  IF hits = {} THEN 0
        ELSE CHOOSE i \in hits : \A j \in hits : i <= j

DX(dir) == CASE dir = "left" -> -1 [] dir = "right" -> 1 [] OTHER -> 0
DY(dir) == CASE dir = "up" -> -1 [] dir = "down" -> 1 [] OTHER -> 0

\* The move methods without their out-of-bounds test.
AtEdgeNever(self, dir) == FALSE

\* The out-of-bounds test each move method starts with.
AtEdge(self, dir) ==
    CASE dir = "up" -> self.y = 0
      [] dir = "down" -> self.y = HEIGHT - 1
      [] dir = "left" -> self.x = 0
      [] dir = "right" -> self.x = WIDTH - 1

\* move_up / move_down / move_left / move_right on the object at (x, y)
\* with glyph `character`, given the list and the map.  The result:
\*   outcome "boundary"  the edge test returned, nothing changed
\*           "collision" detect_collision raised; hit is the index in the list
\*           "ok"        the three steps ran
\*           "error"     a render raised IndexError (after the steps before it)
\* with the position and the map the method leaves behind.
Move(self, dir, ms, m) ==
    LET nx == self.x + DX(dir)
        ny == self.y + DY(dir)
        hit == DetectCollision(ms, nx, ny)
    IN  IF AtEdge(self, dir)
        THEN [outcome |-> "boundary", hit |-> 0, x |-> self.x, y |-> self.y, map |-> m]
        ELSE IF hit # 0
        THEN [outcome |-> "collision", hit |-> hit, x |-> self.x, y |-> self.y, map |-> m]
        ELSE IF ~CanRender(self.x, self.y)
        THEN [outcome |-> "error", hit |-> 0, x |-> self.x, y |-> self.y, map |-> m]
        ELSE LET m1 == Render(m, self.x, self.y, Blank)
             IN  IF ~CanRender(nx, ny)
                 THEN [outcome |-> "error", hit |-> 0, x |-> nx, y |-> ny, map |-> m1]
                 ELSE [outcome |-> "ok", hit |-> 0, x |-> nx, y |-> ny,
                       map |-> Render(m1, nx, ny, self.character)]

\* fire_up mistyped: the Bullet gets dx = 1 next to dy = 1.
FiredBulletDiagonal(self, dir) ==
    CASE dir = "up" -> Bullet(self.x, self.y - 1, VBulletChar, 1, 1)
      [] dir = "down" -> Bullet(self.x, self.y + 1, VBulletChar, 0, -1)
      [] dir = "left" -> Bullet(self.x - 1, self.y, HBulletChar, -1, 0)
      [] dir = "right" -> Bullet(self.x + 1, self.y, HBulletChar, 1, 0)

\* fire_up / fire_down / fire_left / fire_right: the Bullet that is built.
\* fire_up gives dy = 1 and fire_down dy = -1 (Bullet.move reads dy = 1 as up).
FiredBullet(self, dir) ==
    CASE dir = "up" -> Bullet(self.x, self.y - 1, VBulletChar, 0, 1)
      [] dir = "down" -> Bullet(self.x, self.y + 1, VBulletChar, 0, -1)
      [] dir = "left" -> Bullet(self.x - 1, self.y, HBulletChar, -1, 0)
      [] dir = "right" -> Bullet(self.x + 1, self.y, HBulletChar, 1, 0)

\* Fire with mobs.insert(0, bullet) in place of mobs.append(bullet).
FirePrepend(self, dir, ms, m) ==
    LET b == FiredBullet(self, dir)
    IN  IF CanRender(b.x, b.y)
        THEN [outcome |-> "ok", mobs |-> <<b>> \o ms,
              map |-> Render(m, b.x, b.y, b.character)]
        ELSE [outcome |-> "error", mobs |-> ms, map |-> m]

\* Fire where the Bullet is appended twice (by its initializer and by fire).
FireTwice(self, dir, ms, m) ==
    LET b == FiredBullet(self, dir)
    IN  IF CanRender(b.x, b.y)
        THEN [outcome |-> "ok", mobs |-> Append(Append(ms, b), b),
              map |-> Render(m, b.x, b.y, b.character)]
        ELSE [outcome |-> "error", mobs |-> ms, map |-> m]

\* The fire methods: Bullet.__init__ renders the bullet (which may raise
\* IndexError, before the append), then mobs.append.
Fire(self, dir, ms, m) ==
    LET b == FiredBullet(self, dir)
    IN  IF CanRender(b.x, b.y)
        THEN [outcome |-> "ok", mobs |-> Append(ms, b),
              map |-> Render(m, b.x, b.y, b.character)]
        ELSE [outcome |-> "error", mobs |-> ms, map |-> m]

NumBullets(ms) == Cardinality({i \in 1..Len(ms) : ms[i].kind = "Bullet"})
NumMobsIn(ms) == Cardinality({i \in 1..Len(ms) : ms[i].kind = "Mob"})

\* mobs.remove(object) left out.
RemoveNothing(ms, i) == ms

\* mobs.pop() in place of mobs.remove(object).
RemoveLast(ms, i) == SubSeq(ms, 1, Len(ms) - 1)

\* mobs.remove(object): the list without its entry i.
RemoveAt(ms, i) == [k \in 1..(Len(ms) - 1) |-> IF k < i THEN ms[k] ELSE ms[k + 1]]

\* kind of the entity a collision named, "none" without a collision
HitKind(ms, hit) == IF hit = 0 THEN "none" ELSE ms[hit].kind

NoEvent == [actor |-> "none", op |-> "none", dir |-> "none",
            outcome |-> "none", hit |-> 0, hitKind |-> "none"]

\* ------------------------------------------------------------------ Init
Cells == (0..(WIDTH - 1)) \X (0..(HEIGHT - 1))

RECURSIVE RenderAll(_, _, _)
RenderAll(m, ms, i) ==
    IF i > Len(ms) THEN m
    ELSE RenderAll(Render(m, ms[i].x, ms[i].y, ms[i].character), ms, i + 1)

\* player = Object(10, 10, '*'); mobs = [Mob(randint, randint, '+') ...]
Init ==
    \E pos \in [1..NumMobs -> Cells] :
        LET ms == [i \in 1..NumMobs |-> Mob(pos[i][1], pos[i][2])]
            m0 == [y \in 0..(HEIGHT - 1) |-> [x \in 0..(WIDTH - 1) |-> Blank]]
        IN  /\ player = [kind |-> "Player", x |-> PlayerStartX, y |-> PlayerStartY,
                         character |-> PlayerChar]
            /\ mobs = ms
            /\ map = RenderAll(Render(m0, PlayerStartX, PlayerStartY, PlayerChar), ms, 1)
            /\ pc = "display"
            /\ idx = 0
            /\ ev = NoEvent


\* ------------------------------------------------------------------ main loop
\* display(); handle_win_condition(): exit when no element of the list is a Mob.
\* A win test that asks for an empty list instead of a list without Mobs.
WinConditionEmptyList(ms) == Len(ms) = 0

\* not any([type(mob) == Mob for mob in mobs])
WinCondition(ms) == ~ \E i \in 1..Len(ms) : ms[i].kind = "Mob"

HandleWinCondition ==
    /\ pc = "display"
    /\ pc' = IF WinCondition(mobs) THEN "won" ELSE "input"
    /\ ev' = NoEvent
    /\ UNCHANGED <<map, player, mobs, idx>>

KeyOp(key) == IF key \in {"w", "a", "s", "d"} THEN "move"
              ELSE IF key \in {"W", "A", "S", "D"} THEN "fire"
              ELSE "none"

KeyDir(key) == CASE key \in {"w", "W"} -> "up"
                 [] key \in {"a", "A"} -> "left"
                 [] key \in {"d", "D"} -> "right"
                 [] key \in {"s", "S"} -> "down"
                 [] OTHER -> "none"

\* The for loop of handle_mobs begins: a new pass over the list.
StartPass(ms) ==
    [i \in 1..Len(ms) |-> [ms[i] EXCEPT !.atStart = TRUE, !.ran = 0]]

\* The for loop is over: the observation of the pass is cleared.
EndPass(ms) ==
    [i \in 1..Len(ms) |-> [ms[i] EXCEPT !.atStart = FALSE, !.ran = 0]]

\* handle_input with the key read, then the main loop enters handle_mobs.
\* A CollisionException of a move is caught and dropped; fire is outside the
\* try block.  An IndexError is caught nowhere.
HandleInput(key) ==
    /\ pc = "input"
    /\ idx' = 1
    /\ CASE KeyOp(key) = "move" ->
              LET r == Move(player, KeyDir(key), mobs, map)
              IN  /\ player' = [player EXCEPT !.x = r.x, !.y = r.y]
                  /\ map' = r.map
                  /\ mobs' = IF r.outcome = "error" THEN mobs ELSE StartPass(mobs)
                  /\ pc' = IF r.outcome = "error" THEN "crashed" ELSE "mobs"
                  /\ ev' = [actor |-> "player", op |-> "move", dir |-> KeyDir(key),
                            outcome |-> r.outcome, hit |-> r.hit,
                            hitKind |-> HitKind(mobs, r.hit)]
         [] KeyOp(key) = "fire" ->
              LET f == Fire(player, KeyDir(key), mobs, map)
              IN  /\ NumBullets(mobs) < MaxBullets
                  /\ player' = player
                  /\ map' = f.map
                  /\ mobs' = IF f.outcome = "error" THEN mobs ELSE StartPass(f.mobs)
                  /\ pc' = IF f.outcome = "error" THEN "crashed" ELSE "mobs"
                  /\ ev' = [actor |-> "player", op |-> "fire", dir |-> KeyDir(key),
                            outcome |-> f.outcome, hit |-> 0, hitKind |-> "none"]
         [] OTHER ->
              /\ UNCHANGED <<player, map>>
              /\ mobs' = StartPass(mobs)
              /\ pc' = "mobs"
              /\ ev' = [actor |-> "player", op |-> "none", dir |-> "none",
                        outcome |-> "none", hit |-> 0, hitKind |-> "none"]

\* ------------------------------------------------------------------ Mob.move
\* The random draws of one call of Mob.move: which of the four jitter tests
\* succeeded first (none when all four failed), and for each axis whether the
\* first 0.4 test succeeded (move), the second did (fire) or neither.
Jitters == {"none", "left", "right", "up", "down"}
AxisDraws == {"move", "fire", "none"}
Draws == [jitter : Jitters, h : AxisDraws, v : AxisDraws]

\* Mob.move with the horizontal comparisons swapped.
MobDecisionAway(self, p, draw) ==
    IF draw.jitter # "none" THEN [op |-> "move", dir |-> draw.jitter]
    ELSE IF p.x - self.x > 0 /\ draw.h # "none" THEN [op |-> draw.h, dir |-> "left"]
    ELSE IF p.x - self.x < 0 /\ draw.h # "none" THEN [op |-> draw.h, dir |-> "right"]
    ELSE IF p.y - self.y < 0 /\ draw.v # "none" THEN [op |-> draw.v, dir |-> "up"]
    ELSE IF p.y - self.y > 0 /\ draw.v # "none" THEN [op |-> draw.v, dir |-> "down"]
    ELSE [op |-> "none", dir |-> "none"]

\* What Mob.move does with these draws: every branch that acts returns.
MobDecision(self, p, draw) ==
    IF draw.jitter # "none" THEN [op |-> "move", dir |-> draw.jitter]
    ELSE IF p.x - self.x < 0 /\ draw.h # "none" THEN [op |-> draw.h, dir |-> "left"]
    ELSE IF p.x - self.x > 0 /\ draw.h # "none" THEN [op |-> draw.h, dir |-> "right"]
    ELSE IF p.y - self.y < 0 /\ draw.v # "none" THEN [op |-> draw.v, dir |-> "up"]
    ELSE IF p.y - self.y > 0 /\ draw.v # "none" THEN [op |-> draw.v, dir |-> "down"]
    ELSE [op |-> "none", dir |-> "none"]

\* Mob.move without the return in the horizontal branches: the vertical
\* block runs after a horizontal action too.
MobActionsFallThrough(self, p, draw) ==
    LET h == IF p.x - self.x < 0 /\ draw.h # "none" THEN <<[op |-> draw.h, dir |-> "left"]>>
             ELSE IF p.x - self.x > 0 /\ draw.h # "none" THEN <<[op |-> draw.h, dir |-> "right"]>>
             ELSE <<>>
        v == IF p.y - self.y < 0 /\ draw.v # "none" THEN <<[op |-> draw.v, dir |-> "up"]>>
             ELSE IF p.y - self.y > 0 /\ draw.v # "none" THEN <<[op |-> draw.v, dir |-> "down"]>>
             ELSE <<>>
    IN  IF draw.jitter # "none" THEN <<[op |-> "move", dir |-> draw.jitter]>>
        ELSE h \o v

\* The move_* / fire_* calls one run of Mob.move makes with these draws, in
\* order of execution.
MobActions(self, p, draw) ==
    LET d == MobDecision(self, p, draw)
    IN  IF d.op = "none" THEN <<>> ELSE <<d>>

\* One iteration of handle_mobs on a Mob: mob.move() inside try/except
\* CollisionException.
MobTurn(i, d) ==
    LET self == mobs[i]
        ran1 == [mobs EXCEPT ![i].ran = @ + 1]
    IN  CASE d.op = "move" ->
              LET r == Move(self, d.dir, mobs, map)
              IN  /\ mobs' = [ran1 EXCEPT ![i].x = r.x, ![i].y = r.y]
                  /\ map' = r.map
                  /\ pc' = IF r.outcome = "error" THEN "crashed" ELSE "mobs"
                  /\ ev' = [actor |-> "Mob", op |-> "move", dir |-> d.dir,
                            outcome |-> r.outcome, hit |-> r.hit,
                            hitKind |-> HitKind(mobs, r.hit)]
         [] d.op = "fire" ->
              LET f == Fire(self, d.dir, ran1, map)
              IN  /\ NumBullets(mobs) < MaxBullets
                  /\ mobs' = f.mobs
                  /\ map' = f.map
                  /\ pc' = IF f.outcome = "error" THEN "crashed" ELSE "mobs"
                  /\ ev' = [actor |-> "Mob", op |-> "fire", dir |-> d.dir,
                            outcome |-> f.outcome, hit |-> 0, hitKind |-> "none"]
         [] OTHER ->
              /\ mobs' = ran1
              /\ map' = map
              /\ pc' = "mobs"
              /\ ev' = [actor |-> "Mob", op |-> "none", dir |-> "none",
                        outcome |-> "none", hit |-> 0, hitKind |-> "none"]

\* ------------------------------------------------------------------ Bullet.move
\* One of the four tests of the try block of Bullet.move: when `cond` holds and
\* nothing was raised so far, the move method runs on the bullet (entry i of
\* the list) as the tests before it left it.
BulletBranch(s, i, cond, dir) ==
    IF cond /\ s.outcome \notin {"collision", "error"}
    THEN LET r == Move(s.mobs[i], dir, s.mobs, s.map)
         IN  [outcome |-> r.outcome, hit |-> r.hit, dir |-> dir, map |-> r.map,
              mobs |-> [s.mobs EXCEPT ![i].x = r.x, ![i].y = r.y]]
    ELSE s

\* The try block: dy = 1 up, dy = -1 down, dx = 1 right, dx = -1 left.
BulletTry(i, ms, m) ==
    LET self == ms[i]
        s0 == [outcome |-> "none", hit |-> 0, dir |-> "none", map |-> m, mobs |-> ms]
        s1 == BulletBranch(s0, i, self.dy = 1, "up")
        s2 == BulletBranch(s1, i, self.dy = -1, "down")
        s3 == BulletBranch(s2, i, self.dx = 1, "right")
    IN  BulletBranch(s3, i, self.dx = -1, "left")

\* `object == player`: the struck object is an element of the list; the
\* player is the one Object that is not.
IsPlayer(object) == object.kind = "Player"

\* The observation of the Bullet's life after a move() of it.
Lived(ms, i, what) ==
    [ms EXCEPT ![i].life = IF @ = "collided" THEN @ ELSE what]

\* One iteration of handle_mobs on a Bullet: Bullet.move with its except
\* block: blank the struck object's cell, exit if it is the player, else
\* remove it from the list.
BulletTurn(i) ==
    LET ran1 == [mobs EXCEPT ![i].ran = @ + 1]
        s == BulletTry(i, ran1, map)
        object == s.mobs[s.hit]
    IN  /\ ev' = [actor |-> "Bullet", op |-> IF s.dir = "none" THEN "none" ELSE "move",
                  dir |-> s.dir, outcome |-> s.outcome, hit |-> s.hit,
                  hitKind |-> HitKind(mobs, s.hit)]
        /\ IF s.outcome = "collision"
           THEN /\ map' = Render(s.map, object.x, object.y, Blank)
                /\ IF IsPlayer(object)
                   THEN /\ pc' = "died"
                        /\ mobs' = Lived(s.mobs, i, "collided")
                   ELSE /\ pc' = "mobs"
                        /\ mobs' = RemoveAt(Lived(s.mobs, i, "collided"), s.hit)
           ELSE /\ map' = s.map
                /\ mobs' = Lived(s.mobs, i, "flying")
                /\ pc' = IF s.outcome = "error" THEN "crashed" ELSE "mobs"

\* for mob in mobs: the list iterator reads the element at its index as long
\* as the index is inside the list as it is now, then advances.
HandleMobsStep ==
    /\ pc = "mobs"
    /\ idx <= Len(mobs)
    /\ idx' = idx + 1
    /\ player' = player
    /\ IF mobs[idx].kind = "Mob"
       THEN \E d \in {MobDecision(mobs[idx], player, draw) : draw \in Draws} :
                MobTurn(idx, d)
       ELSE BulletTurn(idx)

\* The iterator is exhausted: handle_mobs returns and the loop starts over.
HandleMobsEnd ==
    /\ pc = "mobs"
    /\ idx > Len(mobs)
    /\ pc' = "display"
    /\ idx' = 0
    /\ ev' = NoEvent
    /\ mobs' = EndPass(mobs)
    /\ UNCHANGED <<map, player>>

Next ==
    \/ HandleWinCondition
    \/ \E key \in Keys : HandleInput(key)
    \/ HandleMobsStep
    \/ HandleMobsEnd

Spec == Init /\ [][Next]_vars

\* ------------------------------------------------------------------ Mob.move alone
\* Mob.move as a function of the two positions and the random draws: the
\* player and one Mob stand anywhere on the grid, and one step runs the
\* Mob's move() inside the try/except of handle_mobs.  Here ev holds the
\* draws and the calls that were made.
InitAI ==
    \E pp \in Cells, mp \in Cells :
        LET ms == <<Mob(mp[1], mp[2])>>
            m0 == [y \in 0..(HEIGHT - 1) |-> [x \in 0..(WIDTH - 1) |-> Blank]]
        IN  /\ player = [kind |-> "Player", x |-> pp[1], y |-> pp[2],
                         character |-> PlayerChar]
            /\ mobs = ms
            /\ map = RenderAll(Render(m0, pp[1], pp[2], PlayerChar), ms, 1)
            /\ pc = "mobs"
            /\ idx = 1
            /\ ev = NoEvent

\* One move_* or fire_* call d of entry i, on the list and grid s; ok turns
\* FALSE when the call raises IndexError (a Collision is caught by
\* handle_mobs and changes nothing).
Perform(s, i, d) ==
    IF d.op = "move"
    THEN LET r == Move(s.mobs[i], d.dir, s.mobs, s.map)
         IN  [mobs |-> [s.mobs EXCEPT ![i].x = r.x, ![i].y = r.y],
              map |-> r.map, ok |-> r.outcome # "error"]
    ELSE LET f == Fire(s.mobs[i], d.dir, s.mobs, s.map)
         IN  [mobs |-> f.mobs, map |-> f.map, ok |-> f.outcome # "error"]

RECURSIVE PerformAll(_, _, _)
PerformAll(s, i, acts) ==
    IF acts = <<>> \/ ~s.ok THEN s
    ELSE PerformAll(Perform(s, i, Head(acts)), i, Tail(acts))

MobMoveAI ==
    /\ pc = "mobs"
    /\ idx = 1
    /\ \E draw \in Draws :
        LET acts == MobActions(mobs[1], player, draw)
            s == PerformAll([mobs |-> mobs, map |-> map, ok |-> TRUE], 1, acts)
        IN  /\ mobs' = s.mobs
            /\ map' = s.map
            /\ pc' = IF s.ok THEN "moved" ELSE "crashed"
            /\ ev' = [draw |-> draw, acts |-> acts]
    /\ idx' = 2
    /\ UNCHANGED player

NextAI == MobMoveAI

SpecAI == InitAI /\ [][NextAI]_vars


\* ------------------------------------------------------------------ vocabulary of the claims
\* (x, y) is a cell of the grid.
InBounds(x, y) == /\ 0 <= x /\ x < WIDTH
                  /\ 0 <= y /\ y < HEIGHT

\* What identifies an entity of the list apart from the observation fields.
Core(e) == [kind |-> e.kind, x |-> e.x, y |-> e.y, character |-> e.character,
            dx |-> e.dx, dy |-> e.dy]

\* The player and the entities of the list, as positions with a tag.
Positions == [i \in 0..Len(mobs) |->
                IF i = 0 THEN <<player.x, player.y>> ELSE <<mobs[i].x, mobs[i].y>>]

GridCells == {c \in (0..(WIDTH - 1)) \X (0..(HEIGHT - 1)) : TRUE}

\* The for loop of handle_mobs is about to run move() on a Bullet.
BulletIsNext == /\ pc = "mobs" /\ idx <= Len(mobs)
                /\ mobs[idx].kind = "Bullet"

\* The cell a Bullet's move attempt is aimed at: one step along its velocity
\* (dy = 1 is up, towards row 0).
BulletTarget(b) == <<b.x + b.dx, b.y - b.dy>>

MobsAt(c) == {i \in 1..Len(mobs) : mobs[i].kind = "Mob" /\ <<mobs[i].x, mobs[i].y>> = c}
EntitiesAt(c) == {i \in 1..Len(mobs) : <<mobs[i].x, mobs[i].y>> = c}
First(S) == CHOOSE i \in S : \A j \in S : i <= j

\* ------------------------------------------------------------------ C1
\* C1: in every reachable state no grid cell is occupied by more than one
\* entity (the player, the Mobs and the Bullets).
C1_OneEntityPerCell ==
    \A i, j \in 0..Len(mobs) : i # j => Positions[i] # Positions[j]

\* ------------------------------------------------------------------ C2
\* C2: whenever a Bullet's move attempt targets the player's cell the game
\* enters the loss state at once, and the loss state is entered in no other
\* way.
BulletTargetsPlayer ==
    BulletIsNext /\ BulletTarget(mobs[idx]) = <<player.x, player.y>>

C2_LossIffBulletHitsPlayer ==
    [][/\ BulletTargetsPlayer => pc' = "died"
       /\ (pc # "died" /\ pc' = "died") => BulletTargetsPlayer]_vars

\* ------------------------------------------------------------------ C3
\* C3: the game enters the win state exactly when a win check finds no Mob
\* in the list; the step that enters it changes no entity and no cell, bullets
\* left in the list do not prevent it, and nothing runs after it.
C3_WinIffNoMobAtCheck ==
    [][/\ (pc' = "won") <=> (pc = "display" /\ NumMobsIn(mobs) = 0)
       /\ pc' = "won" => UNCHANGED <<map, player, mobs>>
       /\ pc # "won"]_vars

C3_Witness == pc = "won" /\ NumBullets(mobs) > 0

\* ------------------------------------------------------------------ C4
\* C4: in every reachable state every entity (the player, every Mob, every
\* Bullet) is at a cell of the grid.
C4_AllInBounds ==
    \A i \in 0..Len(mobs) : InBounds(Positions[i][1], Positions[i][2])


\* ------------------------------------------------------------------ C5
\* C5: when a Bullet's move attempt targets a cell that holds a Mob, that Mob
\* (the first at the cell) leaves the list, every other entity stays as it
\* was, the Mob's cell of the grid becomes blank, and the game goes on.
BulletTargetsMob == BulletIsNext /\ MobsAt(BulletTarget(mobs[idx])) # {}

C5_BulletKillsMob ==
    [][BulletTargetsMob =>
        LET c == BulletTarget(mobs[idx])
            j == First(MobsAt(c))
        IN  /\ Len(mobs') = Len(mobs) - 1
            /\ \A k \in 1..Len(mobs') :
                   Core(mobs'[k]) = Core(mobs[IF k < j THEN k ELSE k + 1])
            /\ map'[c[2]][c[1]] = Blank
            /\ pc' = "mobs"]_vars

C5_Witness ==
    /\ ev.actor = "Bullet" /\ ev.outcome = "collision" /\ ev.hitKind = "Mob"
    /\ pc = "mobs"

\* ------------------------------------------------------------------ C6
\* C6: when a Bullet's move attempt collides with an entity, the Bullet
\* itself leaves the list and its glyph is erased from the grid.
C6_BulletDestroyedOnCollision ==
    [][(BulletIsNext /\ ev'.actor = "Bullet" /\ ev'.outcome = "collision") =>
        LET b == mobs[idx]
        IN  /\ Cardinality({k \in 1..Len(mobs') : Core(mobs'[k]) = Core(b)})
                 < Cardinality({k \in 1..Len(mobs) : Core(mobs[k]) = Core(b)})
            /\ map'[Row(b.y)][Col(b.x)] = Blank]_vars

\* ------------------------------------------------------------------ C7
\* C7: when the pass of handle_mobs is over, every entity that was in the
\* list when the pass began and is still in it has had its move() run in the
\* pass.
PassOver == pc = "mobs" /\ idx > Len(mobs)

C7_NoSurvivorSkipped ==
    PassOver => \A i \in 1..Len(mobs) : mobs[i].atStart => mobs[i].ran >= 1

\* ------------------------------------------------------------------ C8
\* C8: a fire action in direction D never fails: it appends exactly one
\* Bullet, one cell from the firer in D with a velocity pointing in D, and
\* changes no other entity.
FireStep == ev'.op = "fire" /\ pc \in {"input", "mobs"}

C8_FireNeverFails ==
    [][FireStep =>
        LET firer == IF pc = "input" THEN player ELSE mobs[idx]
            d == ev'.dir
            b == mobs'[Len(mobs')]
        IN  /\ ev'.outcome = "ok"
            /\ pc' # "crashed"
            /\ Len(mobs') = Len(mobs) + 1
            /\ b.kind = "Bullet"
            /\ <<b.x, b.y>> = <<firer.x + DX(d), firer.y + DY(d)>>
            /\ <<b.dx, -b.dy>> = <<DX(d), DY(d)>>
            /\ \A k \in 1..Len(mobs) : Core(mobs'[k]) = Core(mobs[k])
            /\ player' = player]_vars

\* ------------------------------------------------------------------ C9
\* C9: a move attempt whose destination is a cell of the grid that holds an
\* entity of the list fails with a collision naming the first such entity in
\* list order, and the move changes no position and no cell.  (After a
\* Bullet's failed move its except block then blanks the struck entity's cell
\* and removes the struck entity; nothing else changes.)
MoveStep == ev'.op = "move" /\ pc \in {"input", "mobs"}
Mover == IF pc = "input" THEN player ELSE mobs[idx]
Dest(d) == <<Mover.x + DX(d), Mover.y + DY(d)>>

C9_CollisionPrecedence ==
    [][(MoveStep /\ InBounds(Dest(ev'.dir)[1], Dest(ev'.dir)[2])
                 /\ EntitiesAt(Dest(ev'.dir)) # {}) =>
        LET h == First(EntitiesAt(Dest(ev'.dir)))
        IN  /\ ev'.outcome = "collision"
            /\ ev'.hit = h
            /\ player' = player
            /\ IF pc = "mobs" /\ mobs[idx].kind = "Bullet"
               THEN /\ Len(mobs') = Len(mobs) - 1
                    /\ \A k \in 1..Len(mobs') :
                           Core(mobs'[k]) = Core(mobs[IF k < h THEN k ELSE k + 1])
                    /\ \A c \in GridCells :
                           c # <<mobs[h].x, mobs[h].y>> => map'[c[2]][c[1]] = map[c[2]][c[1]]
               ELSE /\ Len(mobs') = Len(mobs)
                    /\ \A k \in 1..Len(mobs) : Core(mobs'[k]) = Core(mobs[k])
                    /\ map' = map]_vars

\* The player's move was refused by a cell that holds two entities.
C9_Witness ==
    /\ ev.actor = "player" /\ ev.op = "move" /\ ev.outcome = "collision"
    /\ Cardinality(EntitiesAt(<<player.x + DX(ev.dir), player.y + DY(ev.dir)>>)) >= 2

\* ------------------------------------------------------------------ C10
\* C10: after a successful move in direction D the entity is exactly one cell
\* further in D, the cell it left is blank, the cell it entered holds its
\* glyph, and no other cell and no other entity has changed.
MoveDone == MoveStep /\ ev'.outcome = "ok"

OnlyMoverMoved(d) ==
    LET new == Dest(d)
    IN  IF pc = "input"
        THEN /\ <<player'.x, player'.y>> = new
             /\ Len(mobs') = Len(mobs)
             /\ \A k \in 1..Len(mobs) : Core(mobs'[k]) = Core(mobs[k])
        ELSE /\ player' = player
             /\ Len(mobs') = Len(mobs)
             /\ <<mobs'[idx].x, mobs'[idx].y>> = new
             /\ \A k \in 1..Len(mobs) : k # idx => Core(mobs'[k]) = Core(mobs[k])

GridAfterMove(d) ==
    \A c \in GridCells :
        map'[c[2]][c[1]] = IF c = Dest(d) THEN Mover.character
                           ELSE IF c = <<Mover.x, Mover.y>> THEN Blank
                           ELSE map[c[2]][c[1]]

C10_SuccessfulMove ==
    [][MoveDone => OnlyMoverMoved(ev'.dir) /\ GridAfterMove(ev'.dir)]_vars

\* The same for a mover that is at a cell of the grid.
SuccessfulMoveInBounds ==
    [][(MoveDone /\ InBounds(Mover.x, Mover.y)) =>
            OnlyMoverMoved(ev'.dir) /\ GridAfterMove(ev'.dir)]_vars


\* ------------------------------------------------------------------ C11
\* C11: a move attempt of an entity on the grid in a direction that leaves
\* the grid is a silent no-op: no error, no collision acted on, and the
\* positions, the grid and the list are as before, also when another entity
\* shares the mover's cell.
SameEntities ==
    /\ Len(mobs') = Len(mobs)
    /\ \A k \in 1..Len(mobs) : Core(mobs'[k]) = Core(mobs[k])

C11_BoundaryNoOp ==
    [][(MoveStep /\ InBounds(Mover.x, Mover.y)
                 /\ ~InBounds(Dest(ev'.dir)[1], Dest(ev'.dir)[2])) =>
        /\ ev'.outcome = "boundary"
        /\ ev'.hit = 0
        /\ pc' # "crashed"
        /\ player' = player
        /\ map' = map
        /\ SameEntities]_vars

C11_Witness ==
    /\ ev.actor = "player" /\ ev.op = "move" /\ ev.outcome = "boundary"
    /\ EntitiesAt(<<player.x, player.y>>) # {}

\* ------------------------------------------------------------------ C12
\* C12: at every render phase the grid cell at the player's position holds
\* the player's glyph.
C12_PlayerDrawn ==
    pc = "display" => map[player.y][player.x] = PlayerChar

\* ------------------------------------------------------------------ C14
\* C14: the number of Mobs in the list never grows, the player is never in
\* the list, the list shrinks only by the entity a Bullet's collision struck
\* during the pass of handle_mobs, and it grows only by a fire, by one Bullet
\* at its end.
C14_ListChanges ==
    [][/\ NumMobsIn(mobs') <= NumMobsIn(mobs)
       /\ \A k \in 1..Len(mobs') : mobs'[k].kind \in {"Mob", "Bullet"}
       /\ Len(mobs') < Len(mobs) =>
            /\ BulletIsNext
            /\ ev'.actor = "Bullet" /\ ev'.outcome = "collision"
            /\ Len(mobs') = Len(mobs) - 1
            /\ \A k \in 1..Len(mobs') :
                   Core(mobs'[k]) = Core(mobs[IF k < ev'.hit THEN k ELSE k + 1])
       /\ Len(mobs') > Len(mobs) =>
            /\ ev'.op = "fire"
            /\ Len(mobs') = Len(mobs) + 1
            /\ mobs'[Len(mobs')].kind = "Bullet"
            /\ \A k \in 1..Len(mobs) : mobs'[k].kind = mobs[k].kind
       /\ Len(mobs') = Len(mobs) =>
            \A k \in 1..Len(mobs) : mobs'[k].kind = mobs[k].kind]_vars

\* A Bullet struck a Bullet: the list shrank and no Mob left it.
C14_Witness ==
    /\ ev.actor = "Bullet" /\ ev.outcome = "collision" /\ ev.hitKind = "Bullet"
    /\ NumMobsIn(mobs) = NumMobs

\* ------------------------------------------------------------------ C15
\* C15: in the input phase a key that is none of the eight recognised ones
\* raises nothing and changes no position, no cell and no entity of the list;
\* so does a move key whose destination holds an entity of the list.
MoveKeys == {"w", "a", "s", "d"}

KeyDest(k) == <<player.x + DX(KeyDir(k)), player.y + DY(KeyDir(k))>>

InputChangedNothing ==
    /\ pc' = "mobs"
    /\ player' = player
    /\ map' = map
    /\ SameEntities

C15_NoOpInput ==
    [][/\ HandleInput("x") => InputChangedNothing
       /\ \A k \in MoveKeys :
            (HandleInput(k) /\ InBounds(KeyDest(k)[1], KeyDest(k)[2])
                            /\ EntitiesAt(KeyDest(k)) # {}) => InputChangedNothing]_vars

C15_Witness ==
    /\ ev.actor = "player" /\ ev.op = "none" /\ pc = "mobs"
    /\ Len(mobs) > 0

\* ------------------------------------------------------------------ C16
\* C16: a Bullet travels in a straight line: its velocity has exactly one
\* nonzero component, in {-1, 1}, and never changes; its move() takes the one
\* branch that matches the velocity; its coordinate on the other axis never
\* changes.
Velocities == {<<0, 1>>, <<0, -1>>, <<1, 0>>, <<-1, 0>>}

VelocityDir(b) == CASE b.dy = 1 -> "up" [] b.dy = -1 -> "down"
                    [] b.dx = 1 -> "right" [] b.dx = -1 -> "left"
                    [] OTHER -> "none"

\* The index in mobs of the entity that is entry k of mobs' (an entry that
\* was appended in the step has an index beyond the list).
Before(k) == IF Len(mobs') < Len(mobs) /\ k >= ev'.hit THEN k + 1 ELSE k

C16_StraightLine ==
    [][/\ \A k \in 1..Len(mobs') :
            mobs'[k].kind = "Bullet" => <<mobs'[k].dx, mobs'[k].dy>> \in Velocities
       /\ \A k \in 1..Len(mobs') :
            (mobs'[k].kind = "Bullet" /\ Before(k) <= Len(mobs)) =>
                LET old == mobs[Before(k)]
                    new == mobs'[k]
                IN  /\ old.kind = "Bullet"
                    /\ <<new.dx, new.dy>> = <<old.dx, old.dy>>
                    /\ old.dx # 0 => (new.y = old.y /\ new.x - old.x \in {0, old.dx})
                    /\ old.dy # 0 => (new.x = old.x /\ new.y - old.y \in {0, -old.dy})
       /\ BulletIsNext =>
            /\ ev'.actor = "Bullet" /\ ev'.op = "move"
            /\ ev'.dir = VelocityDir(mobs[idx])]_vars

\* A Bullet has just advanced, off the row or column of nothing else.
C16_Witness ==
    /\ ev.actor = "Bullet" /\ ev.op = "move" /\ ev.outcome = "ok"
    /\ pc = "mobs"

\* ------------------------------------------------------------------ C20
\* C20: in one pass of handle_mobs no entity has its move() run more than
\* once, also when the list is appended to and removed from during the pass;
\* an entity changes position only in its own turn, by at most one cell.
Abs(n) == IF n < 0 THEN -n ELSE n

C20_AtMostOncePerPass ==
    [][/\ \A k \in 1..Len(mobs') : mobs'[k].ran <= 1
       /\ \A k \in 1..Len(mobs') :
            Before(k) <= Len(mobs) =>
                LET old == mobs[Before(k)]
                    new == mobs'[k]
                    moved == Abs(new.x - old.x) + Abs(new.y - old.y)
                IN  /\ moved <= 1
                    /\ moved = 1 => (pc = "mobs" /\ Before(k) = idx /\ old.ran = 0)]_vars

\* A pass is over in which a Bullet was appended and ran, and whose last
\* turn removed an entity.
C20_Witness ==
    /\ PassOver
    /\ ev.actor = "Bullet" /\ ev.outcome = "collision"
    /\ \E i \in 1..Len(mobs) : ~mobs[i].atStart /\ mobs[i].ran = 1

\* ---------------------------------------------------------------------
\* C17 as stated: a Bullet whose move attempt has collided with a
\* non-player entity stays in the list and its position is the same in every
\* later state.
After(j) == IF Len(mobs') < Len(mobs) /\ j > ev'.hit THEN j - 1 ELSE j

C17_CollidedBulletStops ==
    [][/\ Len(mobs') < Len(mobs) => mobs[ev'.hit].life # "collided"
       /\ \A j \in 1..Len(mobs) :
            (mobs[j].life = "collided" /\ After(j) <= Len(mobs')
                /\ ~(Len(mobs') < Len(mobs) /\ j = ev'.hit)) =>
                <<mobs'[After(j)].x, mobs'[After(j)].y>> = <<mobs[j].x, mobs[j].y>>]_vars

\* C17, amended: the move attempt that collides with a list entity leaves
\* the Bullet in the list with its position and velocity as they were, and
\* the Bullet is not stopped: whenever a later move() of it finds the cell
\* ahead on the grid and free of list entities, it advances to that cell.
C17_CollidedBulletMovesOn ==
    [][BulletIsNext =>
        LET b == mobs[idx]
            t == BulletTarget(b)
        IN  /\ ev'.outcome = "collision" =>
                /\ After(idx) <= Len(mobs')
                /\ Core(mobs'[After(idx)]) = Core(b)
                /\ mobs'[After(idx)].life = "collided"
            /\ (b.life = "collided" /\ InBounds(b.x, b.y) /\ InBounds(t[1], t[2])
                    /\ EntitiesAt(t) = {}) =>
                /\ ev'.outcome = "ok"
                /\ Len(mobs') = Len(mobs)
                /\ <<mobs'[idx].x, mobs'[idx].y>> = t
                /\ mobs'[idx].life = "collided"]_vars

\* A Bullet that collided in an earlier tick has just advanced.
C17_Witness ==
    /\ pc = "mobs" /\ idx > 1 /\ idx - 1 <= Len(mobs)
    /\ ev.actor = "Bullet" /\ ev.outcome = "ok"
    /\ mobs[idx - 1].kind = "Bullet"
    /\ mobs[idx - 1].life = "collided"
    /\ mobs[idx - 1].ran = 1

\* ---------------------------------------------------------------------
\* C18: a Bullet created on a cell that another entity occupies shares the
\* cell for at most one tick: after the Bullet's first move attempt the
\* Bullet and that entity are not both live at the same cell.
Sharers == {j \in 1..Len(mobs) : j # idx /\ <<mobs[j].x, mobs[j].y>> = <<mobs[idx].x, mobs[idx].y>>}

C18_OverlapResolved ==
    [][(BulletIsNext /\ mobs[idx].life = "new") =>
        LET b == mobs'[After(idx)]
        IN  /\ <<player.x, player.y>> = <<mobs[idx].x, mobs[idx].y>> =>
                <<player'.x, player'.y>> # <<b.x, b.y>>
            /\ \A j \in Sharers :
                    (Len(mobs') < Len(mobs) /\ j = ev'.hit)
                    \/ <<mobs'[After(j)].x, mobs'[After(j)].y>> # <<b.x, b.y>>]_vars

\* ---------------------------------------------------------------------
\* C13 as stated: when no jitter move fired, the vertical step is evaluated
\* regardless of what the horizontal step did, so a Mob whose horizontal
\* draw acts and whose vertical draw acts performs two actions in the tick.
Horizontal == {"left", "right"}
Vertical == {"up", "down"}

C13_VerticalRegardless ==
    [][(/\ ev'.draw.jitter = "none"
        /\ player.x # mobs[1].x /\ ev'.draw.h # "none"
        /\ player.y # mobs[1].y /\ ev'.draw.v # "none"
        /\ pc' # "crashed") =>
            /\ Len(ev'.acts) = 2
            /\ ev'.acts[1].dir \in Horizontal
            /\ ev'.acts[2].dir \in Vertical]_vars

\* C13, amended: the vertical step is evaluated only when no jitter move
\* fired and the horizontal step performed neither a move nor a fire; it is
\* then evaluated whatever the horizontal offset is.  A Mob performs zero or
\* one action per tick: it is displaced by at most one cell or adds one
\* Bullet, never both.
C13_AtMostOneAction ==
    [][LET m == mobs[1]
           draw == ev'.draw
           acts == ev'.acts
           hActs == draw.jitter = "none" /\ player.x # m.x /\ draw.h # "none"
           vActs == draw.jitter = "none" /\ player.y # m.y /\ draw.v # "none"
       IN  /\ Len(acts) <= 1
           /\ hActs => (Len(acts) = 1 /\ acts[1].dir \in Horizontal /\ acts[1].op = draw.h)
           /\ (vActs /\ ~hActs) =>
                (Len(acts) = 1 /\ acts[1].dir \in Vertical /\ acts[1].op = draw.v)
           /\ (draw.jitter = "none" /\ ~hActs /\ ~vActs) => acts = <<>>
           /\ Abs(mobs'[1].x - m.x) + Abs(mobs'[1].y - m.y)
                + (Len(mobs') - Len(mobs)) <= 1
           /\ acts = <<>> => (mobs' = mobs /\ map' = map)]_vars

\* Both axis draws act for a Mob off the player's row and column, and the
\* Mob's run of move() made the horizontal call only.
C13_Witness ==
    /\ pc = "moved"
    /\ ev.draw.jitter = "none" /\ ev.draw.h # "none" /\ ev.draw.v # "none"
    /\ player.y # mobs[1].y
    /\ Len(ev.acts) = 1 /\ ev.acts[1].dir \in Horizontal

\* ---------------------------------------------------------------------
\* C19: whatever the draws, a Mob's run of move() is a single jitter move
\* and nothing else, or axis actions that point toward the player (left
\* only if player.x < mob.x, right only if player.x > mob.x, up only if
\* player.y < mob.y, down only if player.y > mob.y); no action on an axis
\* whose offset is zero, and never a move and a fire on one axis.
Toward(m, dir) ==
    CASE dir = "left" -> player.x < m.x
      [] dir = "right" -> player.x > m.x
      [] dir = "up" -> player.y < m.y
      [] dir = "down" -> player.y > m.y
      [] OTHER -> FALSE

C19_MobProcedure ==
    [][LET m == mobs[1]
           draw == ev'.draw
           acts == ev'.acts
       IN  /\ draw.jitter # "none" =>
                /\ acts = <<[op |-> "move", dir |-> draw.jitter]>>
                /\ Len(mobs') = Len(mobs)
                /\ <<mobs'[1].x - m.x, mobs'[1].y - m.y>>
                     \in {<<0, 0>>, <<DX(draw.jitter), DY(draw.jitter)>>}
           /\ draw.jitter = "none" =>
                /\ \A k \in 1..Len(acts) :
                     /\ acts[k].op \in {"move", "fire"}
                     /\ Toward(m, acts[k].dir)
                     /\ acts[k].op = "move" =>
                          <<mobs'[1].x - m.x, mobs'[1].y - m.y>>
                            \in {<<0, 0>>, <<DX(acts[k].dir), DY(acts[k].dir)>>}
                     /\ (acts[k].op = "fire" /\ pc' # "crashed") =>
                          \E j \in 2..Len(mobs') :
                            /\ mobs'[j].kind = "Bullet"
                            /\ <<mobs'[j].x, mobs'[j].y>>
                                 = <<m.x + DX(acts[k].dir), m.y + DY(acts[k].dir)>>
                            /\ VelocityDir(mobs'[j]) = acts[k].dir
                /\ \A k, l \in 1..Len(acts) :
                     (k # l /\ acts[k].dir \in Horizontal) => acts[l].dir \notin Horizontal
                /\ \A k, l \in 1..Len(acts) :
                     (k # l /\ acts[k].dir \in Vertical) => acts[l].dir \notin Vertical
                /\ player.x = m.x => \A k \in 1..Len(acts) : acts[k].dir \notin Horizontal
                /\ player.y = m.y => \A k \in 1..Len(acts) : acts[k].dir \notin Vertical]_vars

\* A Mob level with the player on one axis has acted on the other axis,
\* toward the player, with both axis draws acting.
C19_Witness ==
    /\ pc = "moved"
    /\ ev.draw.jitter = "none" /\ ev.draw.h # "none" /\ ev.draw.v # "none"
    /\ player.x = mobs[1].x /\ player.y < mobs[1].y
    /\ ev.acts = <<[op |-> "fire", dir |-> "up"]>>
    /\ Len(mobs) = 2


====
